---------------------------- MODULE Spec2Model ----------------------------
(***************************************************************************)
(* Model of src/src/lib/algorithms/binary-search.py: the instrumented      *)
(* binary search (BinarySearchAlgorithm.execute and its helpers).          *)
(*                                                                         *)
(* A thread is one caller of execute.  Every statement of execute that     *)
(* reads or writes the instance attributes self.steps / self.comparisons   *)
(* is one action, so that calls on one shared instance interleave as       *)
(* Python threads do.  self.steps is a reference into a heap of list       *)
(* objects: `self.steps = []` allocates a new list, and a returned         *)
(* BinarySearchResult holds the reference, not a copy.                     *)
(*                                                                         *)
(* Python values are records [k, v]: k is "int" (a finite number, v its    *)
(* value), "nan", "inf", "ninf" (float nan, +inf, -inf) or "str" (a        *)
(* non-number).  Finite numbers are modelled by integers: the code only    *)
(* compares them.  An int beyond the range of float, on which              *)
(* math.isfinite raises OverflowError, is not modelled.                    *)
(*                                                                         *)
(* _validate_input reads its arguments only and is one action; a return    *)
(* statement, which reads self.steps and self.comparisons, is one action.  *)
(***************************************************************************)
EXTENDS Integers, Sequences, FiniteSets, TLC

\* ---------------------------------------------------------------- bounds
MaxLen == 4
MaxVal == 3
PairMaxLen == 4
PairMaxVal == 3
ConcMaxLen == 1
ConcMaxVal == 1

Threads == {1, 2}
Instances == {1, 2}

VARIABLES
    pc,           \* thread -> position in execute
    data,         \* thread -> argument data (a sequence of values)
    isList,       \* thread -> isinstance(data, list)
    target,       \* thread -> argument target
    track,        \* thread -> argument track_steps
    left, right, mid,   \* thread -> locals of _binary_search_core
    tmp,          \* thread -> value loaded by `self.comparisons += 1`
    pend,         \* thread -> the step dict handed to _add_step
    ret,          \* thread -> where the caller of _add_step continues
    res,          \* thread -> the dict returned by _binary_search_core
    result,       \* thread -> the BinarySearchResult returned by execute
    err,          \* thread -> the exception raised by execute
    hist,         \* thread -> branches taken so far (history variable)
    self,         \* thread -> the instance execute is called on
    steps,        \* instance -> self.steps, a reference into heap
    comparisons,  \* instance -> self.comparisons
    heap          \* the list objects: reference -> sequence of step dicts

vars == <<pc, data, isList, target, track, left, right, mid, tmp, pend, ret,
          res, result, err, hist, self, steps, comparisons, heap>>

\* ---------------------------------------------------------- Python values
Num(n) == [k |-> "int", v |-> n]
NaN == [k |-> "nan", v |-> 0]
PInf == [k |-> "inf", v |-> 0]
NInf == [k |-> "ninf", v |-> 0]
Str == [k |-> "str", v |-> 0]

\* isinstance(x, (int, float))
IsNumber(x) == x.k # "str"

\* math.isfinite(x), for a number x
IsFinite(x) == x.k = "int"

\* a < b: "true", "false", or "TypeError" (a number against a non-number)
PyLt(a, b) ==
    IF a.k = "str" /\ b.k = "str" THEN (IF a.v < b.v THEN "true" ELSE "false")
    ELSE IF a.k = "str" \/ b.k = "str" THEN "TypeError"
    ELSE IF a.k = "nan" \/ b.k = "nan" THEN "false"
    ELSE IF a.k = "ninf" THEN (IF b.k # "ninf" THEN "true" ELSE "false")
    ELSE IF a.k = "inf" THEN "false"
    ELSE IF b.k = "inf" THEN "true"
    ELSE IF b.k = "ninf" THEN "false"
    ELSE IF a.v < b.v THEN "true" ELSE "false"

\* a == b (never raises; nan equals nothing)
PyEq(a, b) == a.k # "nan" /\ b.k # "nan" /\ a = b

\* f'{x}'
PyStr(x) ==
    IF x.k = "int" THEN ToString(x.v)
    ELSE IF x.k = "ninf" THEN "-inf"
    ELSE IF x.k = "str" THEN "a"
    ELSE x.k

\* data[i] with Python's 0-based index; a negative index counts from the end
InBounds(d, i) == -Len(d) <= i /\ i < Len(d)
PyAt(d, i) == IF i >= 0 THEN d[i + 1] ELSE d[Len(d) + i + 1]

\* list(range(start, end + 1))
GenerateRangeIndices(start, end) == [i \in 1..(end - start + 1) |-> start + i - 1]

\* ------------------------------------------------------------- exceptions
NoErr == [kind |-> "none"]
ErrList == [kind |-> "ValueError", msg |-> "Input data must be a list"]
ErrTarget == [kind |-> "ValueError", msg |-> "Target must be a finite number"]
ErrSortedSwapped(d, i) ==
    [kind |-> "ValueError", msg |-> "Array must be sorted for binary search",
     indices |-> <<i, i + 1>>, values |-> <<PyAt(d, i), PyAt(d, i - 1)>>]
\* f'... Found {data[i]} < {data[i - 1]} at indices {i} and {i - 1}'
ErrSorted(d, i) ==
    [kind |-> "ValueError", msg |-> "Array must be sorted for binary search",
     indices |-> <<i, i - 1>>, values |-> <<PyAt(d, i), PyAt(d, i - 1)>>]
\* f'Array element at index {i} must be a finite number, got: {value}'
ErrElement(d, i) ==
    [kind |-> "ValueError", msg |-> "Array element must be a finite number",
     index |-> i, value |-> PyAt(d, i)]
\* raised by `<` between a number and a non-number
ErrType == [kind |-> "TypeError", msg |-> "'<' not supported"]
\* raised by data[i] with i out of range
ErrIndex == [kind |-> "IndexError", msg |-> "list index out of range"]

\* ------------------------------------------------------------- validation
Min(S) == CHOOSE x \in S : \A y \in S : x <= y

\* the indices at which the sortedness loop stops: data[i] < data[i-1] is
\* true (raise ValueError) or raises TypeError
Unsorted(d) == {i \in 1..(Len(d) - 1) : PyLt(PyAt(d, i), PyAt(d, i - 1)) # "false"}

\* the indices whose element is not a finite number
BadElements(d) == {i \in 0..(Len(d) - 1) : ~IsNumber(PyAt(d, i)) \/ ~IsFinite(PyAt(d, i))}

\* _validate_input: the exception it raises, NoErr when it returns
ValidateInput(l, d, tg) ==
    IF ~l THEN ErrList
    ELSE IF ~IsNumber(tg) \/ ~IsFinite(tg) THEN ErrTarget
    ELSE IF Unsorted(d) # {}
         THEN LET i == Min(Unsorted(d))
              IN  IF PyLt(PyAt(d, i), PyAt(d, i - 1)) = "true"
                  THEN ErrSorted(d, i) ELSE ErrType
    ELSE IF BadElements(d) # {} THEN ErrElement(d, Min(BadElements(d)))
    ELSE NoErr

\* ------------------------------------------------------------- step dicts
EvInit(tg, n) ==
    [type |-> "init", indices |-> <<>>,
     metadata |-> [target |-> tg, arrayLength |-> n,
                   algorithm |-> "binary-search", language |-> "python"],
     operationCount |-> 0]

EvEmpty ==
    [type |-> "eliminate", indices |-> <<>>,
     metadata |-> [found |-> FALSE, reason |-> "empty-array"],
     operationCount |-> 0]

EvRange(l, r, m) ==
    [type |-> "highlight", indices |-> GenerateRangeIndices(l, r),
     metadata |-> [left |-> l, right |-> r, mid |-> m, searchRange |-> TRUE,
                   rangeSize |-> r - l + 1],
     operationCount |-> 0]

EvPointers(d, l, r, m) ==
    [type |-> "highlight", indices |-> <<l, m, r>>,
     metadata |-> [left |-> l, right |-> r, mid |-> m,
                   pointers |-> [left |-> l, mid |-> m, right |-> r],
                   leftValue |-> PyAt(d, l), midValue |-> PyAt(d, m),
                   rightValue |-> PyAt(d, r)],
     operationCount |-> 0]

GetComparisonResultSwapped(tg, m) ==
    IF PyEq(tg, m) THEN "equal"
    ELSE IF PyLt(tg, m) = "true" THEN "greater"
    ELSE "less"

\* _get_comparison_result(target, mid)
GetComparisonResult(tg, m) ==
    IF PyEq(tg, m) THEN "equal"
    ELSE IF PyLt(tg, m) = "true" THEN "less"
    ELSE "greater"

EvCompare(d, l, r, m, tg, c) ==
    [type |-> "compare", indices |-> <<m>>,
     metadata |-> [left |-> l, right |-> r, mid |-> m, targetValue |-> tg,
                   midValue |-> PyAt(d, m),
                   comparison |-> GetComparisonResult(tg, PyAt(d, m)),
                   comparisonCount |-> c],
     operationCount |-> 0]

EvFound(l, r, m, tg, c) ==
    [type |-> "found", indices |-> <<m>>,
     metadata |-> [left |-> l, right |-> r, mid |-> m, found |-> TRUE,
                   targetValue |-> tg, foundIndex |-> m, totalComparisons |-> c],
     operationCount |-> 0]

EvElimLeft(d, l, r, m, tg) ==
    [type |-> "eliminate", indices |-> GenerateRangeIndices(l, m),
     metadata |-> [left |-> l, right |-> r, mid |-> m, eliminated |-> "left",
                   eliminatedRange |-> <<l, m>>,
                   reason |-> PyStr(PyAt(d, m)) \o " < " \o PyStr(tg),
                   remainingRange |-> <<m + 1, r>>, remainingSize |-> r - m],
     operationCount |-> 0]

EvElimRightKeepsMid(d, l, r, m, tg) ==
    [type |-> "eliminate", indices |-> GenerateRangeIndices(m, r),
     metadata |-> [left |-> l, right |-> r, mid |-> m, eliminated |-> "right",
                   eliminatedRange |-> <<m, r>>,
                   reason |-> PyStr(PyAt(d, m)) \o " > " \o PyStr(tg),
                   remainingRange |-> <<l, m>>, remainingSize |-> m - l],
     operationCount |-> 0]

EvElimRight(d, l, r, m, tg) ==
    [type |-> "eliminate", indices |-> GenerateRangeIndices(m, r),
     metadata |-> [left |-> l, right |-> r, mid |-> m, eliminated |-> "right",
                   eliminatedRange |-> <<m, r>>,
                   reason |-> PyStr(PyAt(d, m)) \o " > " \o PyStr(tg),
                   remainingRange |-> <<l, m - 1>>, remainingSize |-> m - l],
     operationCount |-> 0]

EvExhausted(c, l, r) ==
    [type |-> "eliminate", indices |-> <<>>,
     metadata |-> [found |-> FALSE, totalComparisons |-> c,
                   searchExhausted |-> TRUE, finalLeft |-> l, finalRight |-> r],
     operationCount |-> 0]


\* ----------------------------------------------------------------- inputs
Values(maxVal) == {Num(n) : n \in 1..maxVal} \cup {NaN, PInf, NInf, Str}
Targets(maxVal) == {Num(n) : n \in 0..(maxVal + 1)} \cup {NaN, PInf, Str}
SeqsUpTo(S, n) == UNION {[1..k -> S] : k \in 0..n}

\* sorted lists of finite numbers: the lists _validate_input accepts
ValidLists(maxLen, maxVal) ==
    {d \in SeqsUpTo({Num(n) : n \in 1..maxVal}, maxLen) : Unsorted(d) = {}}
FiniteTargets(maxVal) == {Num(n) : n \in 0..(maxVal + 1)}

\* ----------------------------------------------------------- construction
NoStep == [type |-> "none"]
NoRes == [found |-> FALSE, index |-> -1]
NoResult == [found |-> FALSE, index |-> -1, steps |-> 0, comparisons |-> 0]

\* BinarySearchAlgorithm.__init__ for each instance, every thread not yet
\* in execute; `shared` is whether both threads call execute on one instance
InitWith(shared) ==
    /\ pc = [t \in Threads |-> "idle"]
    /\ data = [t \in Threads |-> <<>>]
    /\ isList = [t \in Threads |-> TRUE]
    /\ target = [t \in Threads |-> Num(0)]
    /\ track = [t \in Threads |-> FALSE]
    /\ left = [t \in Threads |-> 0]
    /\ right = [t \in Threads |-> 0]
    /\ mid = [t \in Threads |-> 0]
    /\ tmp = [t \in Threads |-> 0]
    /\ pend = [t \in Threads |-> NoStep]
    /\ ret = [t \in Threads |-> "idle"]
    /\ res = [t \in Threads |-> NoRes]
    /\ result = [t \in Threads |-> NoResult]
    /\ err = [t \in Threads |-> NoErr]
    /\ hist = [t \in Threads |-> <<>>]
    /\ self = [t \in Threads |-> IF shared THEN 1 ELSE t]
    /\ steps = [i \in Instances |-> i]
    /\ comparisons = [i \in Instances |-> 0]
    /\ heap = [i \in Instances |-> <<>>]

\* ---------------------------------------------------------------- actions
Goto(t, l) == pc' = [pc EXCEPT ![t] = l]

\* `raise e` out of execute
Raise(t, e) ==
    /\ err' = [err EXCEPT ![t] = e]
    /\ Goto(t, "raised")

\* the caller builds the step dict and enters _add_step; `next` is where the
\* caller continues after it
AddStep(t, step, next) ==
    /\ pend' = [pend EXCEPT ![t] = step]
    /\ ret' = [ret EXCEPT ![t] = next]
    /\ Goto(t, "add_stamp")

\* a caller enters execute(data, target, track_steps)
Execute(t, l, d, tg, tr) ==
    /\ pc[t] = "idle"
    /\ isList' = [isList EXCEPT ![t] = l]
    /\ data' = [data EXCEPT ![t] = d]
    /\ target' = [target EXCEPT ![t] = tg]
    /\ track' = [track EXCEPT ![t] = tr]
    /\ Goto(t, "reset_steps")
    /\ UNCHANGED <<left, right, mid, tmp, pend, ret, res, result, err, hist,
                   self, steps, comparisons, heap>>

ResetStepsInPlace(t) ==
    /\ pc[t] = "reset_steps"
    /\ heap' = [heap EXCEPT ![steps[self[t]]] = <<>>]
    /\ Goto(t, "reset_comparisons")
    /\ UNCHANGED <<data, isList, target, track, left, right, mid, tmp, pend,
                   ret, res, result, err, hist, self, steps, comparisons>>

\* line 58: self.steps = []
ResetSteps(t) ==
    /\ pc[t] = "reset_steps"
    /\ heap' = Append(heap, <<>>)
    /\ steps' = [steps EXCEPT ![self[t]] = Len(heap) + 1]
    /\ Goto(t, "reset_comparisons")
    /\ UNCHANGED <<data, isList, target, track, left, right, mid, tmp, pend,
                   ret, res, result, err, hist, self, comparisons>>

\* line 59: self.comparisons = 0
ResetComparisons(t) ==
    /\ pc[t] = "reset_comparisons"
    /\ comparisons' = [comparisons EXCEPT ![self[t]] = 0]
    /\ Goto(t, "validate")
    /\ UNCHANGED <<data, isList, target, track, left, right, mid, tmp, pend,
                   ret, res, result, err, hist, self, steps, heap>>

\* line 62: self._validate_input(data, target); it reads the arguments only
Validate(t) ==
    /\ pc[t] = "validate"
    /\ LET e == ValidateInput(isList[t], data[t], target[t])
       IN  IF e = NoErr
           THEN Goto(t, "init") /\ UNCHANGED err
           ELSE Raise(t, e)
    /\ UNCHANGED <<data, isList, target, track, left, right, mid, tmp, pend,
                   ret, res, result, hist, self, steps, comparisons, heap>>

\* lines 64-75: the init step
InitStep(t) ==
    /\ pc[t] = "init"
    /\ IF track[t]
       THEN AddStep(t, EvInit(target[t], Len(data[t])), "edge")
       ELSE Goto(t, "edge") /\ UNCHANGED <<pend, ret>>
    /\ UNCHANGED <<data, isList, target, track, left, right, mid, tmp, res,
                   result, err, hist, self, steps, comparisons, heap>>

EdgeCaseNoShortCut(t) ==
    /\ pc[t] = "edge"
    /\ left' = [left EXCEPT ![t] = 0]
    /\ right' = [right EXCEPT ![t] = Len(data[t]) - 1]
    /\ Goto(t, "loop")
    /\ UNCHANGED <<data, isList, target, track, mid, tmp, pend, ret, res,
                   result, err, hist, self, steps, comparisons, heap>>

EdgeCaseRightLen(t) ==
    /\ pc[t] = "edge"
    /\ IF Len(data[t]) = 0
       THEN /\ IF track[t]
               THEN AddStep(t, EvEmpty, "return_empty")
               ELSE Goto(t, "return_empty") /\ UNCHANGED <<pend, ret>>
            /\ UNCHANGED <<left, right>>
       ELSE /\ left' = [left EXCEPT ![t] = 0]
            /\ right' = [right EXCEPT ![t] = Len(data[t])]
            /\ Goto(t, "loop")
            /\ UNCHANGED <<pend, ret>>
    /\ UNCHANGED <<data, isList, target, track, mid, tmp, res, result, err,
                   hist, self, steps, comparisons, heap>>

\* lines 78-85: the empty list; otherwise lines 103-104 of the core
EdgeCase(t) ==
    /\ pc[t] = "edge"
    /\ IF Len(data[t]) = 0
       THEN /\ IF track[t]
               THEN AddStep(t, EvEmpty, "return_empty")
               ELSE Goto(t, "return_empty") /\ UNCHANGED <<pend, ret>>
            /\ UNCHANGED <<left, right>>
       ELSE /\ left' = [left EXCEPT ![t] = 0]
            /\ right' = [right EXCEPT ![t] = Len(data[t]) - 1]
            /\ Goto(t, "loop")
            /\ UNCHANGED <<pend, ret>>
    /\ UNCHANGED <<data, isList, target, track, mid, tmp, res, result, err,
                   hist, self, steps, comparisons, heap>>

\* line 86: return BinarySearchResult(False, -1, self.steps, self.comparisons)
ReturnEmpty(t) ==
    /\ pc[t] = "return_empty"
    /\ result' = [result EXCEPT ![t] =
                    [found |-> FALSE, index |-> -1, steps |-> steps[self[t]],
                     comparisons |-> comparisons[self[t]]]]
    /\ Goto(t, "returned")
    /\ UNCHANGED <<data, isList, target, track, left, right, mid, tmp, pend,
                   ret, res, err, hist, self, steps, comparisons, heap>>

\* mid = (left + right) // 2
MidLeft(l, r) == l
Mid(l, r) == (l + r) \div 2

\* lines 106-107: the loop test and mid
LoopTest(t) ==
    /\ pc[t] = "loop"
    /\ IF left[t] <= right[t]
       THEN /\ mid' = [mid EXCEPT ![t] = Mid(left[t], right[t])]
            /\ Goto(t, "highlight_range")
       ELSE /\ Goto(t, "exhausted")
            /\ UNCHANGED mid
    /\ UNCHANGED <<data, isList, target, track, left, right, tmp, pend, ret,
                   res, result, err, hist, self, steps, comparisons, heap>>

\* lines 109-122: the highlight step of the search range
HighlightRange(t) ==
    /\ pc[t] = "highlight_range"
    /\ IF track[t]
       THEN AddStep(t, EvRange(left[t], right[t], mid[t]), "highlight_pointers")
       ELSE Goto(t, "load_comparisons") /\ UNCHANGED <<pend, ret>>
    /\ UNCHANGED <<data, isList, target, track, left, right, mid, tmp, res,
                   result, err, hist, self, steps, comparisons, heap>>

\* lines 124-138: the highlight step of the pointers (inside `if track_steps`)
HighlightPointers(t) ==
    /\ pc[t] = "highlight_pointers"
    /\ IF InBounds(data[t], left[t]) /\ InBounds(data[t], mid[t])
          /\ InBounds(data[t], right[t])
       THEN /\ AddStep(t, EvPointers(data[t], left[t], right[t], mid[t]),
                       "load_comparisons")
            /\ UNCHANGED err
       ELSE Raise(t, ErrIndex) /\ UNCHANGED <<pend, ret>>
    /\ UNCHANGED <<data, isList, target, track, left, right, mid, tmp, res,
                   result, hist, self, steps, comparisons, heap>>

\* line 141, first half: load self.comparisons
LoadComparisons(t) ==
    /\ pc[t] = "load_comparisons"
    /\ tmp' = [tmp EXCEPT ![t] = comparisons[self[t]]]
    /\ Goto(t, "store_comparisons")
    /\ UNCHANGED <<data, isList, target, track, left, right, mid, pend, ret,
                   res, result, err, hist, self, steps, comparisons, heap>>

StoreComparisonsIfTracked(t) ==
    /\ pc[t] = "store_comparisons"
    /\ comparisons' = [comparisons EXCEPT ![self[t]] =
                         IF track[t] THEN tmp[t] + 1 ELSE tmp[t]]
    /\ Goto(t, "compare")
    /\ UNCHANGED <<data, isList, target, track, left, right, mid, tmp, pend,
                   ret, res, result, err, hist, self, steps, heap>>

\* line 141, second half: store the loaded value plus one
StoreComparisons(t) ==
    /\ pc[t] = "store_comparisons"
    /\ comparisons' = [comparisons EXCEPT ![self[t]] = tmp[t] + 1]
    /\ Goto(t, "compare")
    /\ UNCHANGED <<data, isList, target, track, left, right, mid, tmp, pend,
                   ret, res, result, err, hist, self, steps, heap>>

CompareSilent(t) ==
    /\ pc[t] = "compare"
    /\ Goto(t, "branch")
    /\ UNCHANGED <<pend, ret, err>>
    /\ UNCHANGED <<data, isList, target, track, left, right, mid, tmp, res,
                   result, hist, self, steps, comparisons, heap>>

\* lines 143-157: the compare step
Compare(t) ==
    /\ pc[t] = "compare"
    /\ IF ~track[t]
       THEN Goto(t, "branch") /\ UNCHANGED <<pend, ret, err>>
       ELSE IF InBounds(data[t], mid[t])
       THEN /\ AddStep(t, EvCompare(data[t], left[t], right[t], mid[t], target[t],
                                    comparisons[self[t]]), "branch")
            /\ UNCHANGED err
       ELSE Raise(t, ErrIndex) /\ UNCHANGED <<pend, ret>>
    /\ UNCHANGED <<data, isList, target, track, left, right, mid, tmp, res,
                   result, hist, self, steps, comparisons, heap>>

\* which arm of lines 159 / 178 / 199 is taken for element e and target tg
BranchGreaterIsEqual(e, tg) ==
    IF PyLt(e, tg) = "TypeError" THEN "TypeError"
    ELSE IF PyLt(e, tg) = "true" THEN "less"
    ELSE "equal"
BranchSwapped(e, tg) ==
    IF PyEq(e, tg) THEN "equal"
    ELSE IF PyLt(e, tg) = "TypeError" THEN "TypeError"
    ELSE IF PyLt(e, tg) = "true" THEN "greater"
    ELSE "less"
BranchOf(e, tg) ==
    IF PyEq(e, tg) THEN "equal"
    ELSE IF PyLt(e, tg) = "TypeError" THEN "TypeError"
    ELSE IF PyLt(e, tg) = "true" THEN "less"
    ELSE "greater"

\* lines 159, 178, 199: if data[mid] == target / elif data[mid] < target / else
Branch(t) ==
    /\ pc[t] = "branch"
    /\ IF ~InBounds(data[t], mid[t])
       THEN Raise(t, ErrIndex) /\ UNCHANGED hist
       ELSE LET b == BranchOf(PyAt(data[t], mid[t]), target[t])
            IN  IF b = "TypeError"
                THEN Raise(t, ErrType) /\ UNCHANGED hist
                ELSE /\ hist' = [hist EXCEPT ![t] = Append(@, b)]
                     /\ Goto(t, IF b = "equal" THEN "found"
                                ELSE IF b = "less" THEN "eliminate_left"
                                ELSE "eliminate_right")
                     /\ UNCHANGED err
    /\ UNCHANGED <<data, isList, target, track, left, right, mid, tmp, pend,
                   ret, res, result, self, steps, comparisons, heap>>

\* lines 160-176: the found step and return {'found': True, 'index': mid}
Found(t) ==
    /\ pc[t] = "found"
    /\ res' = [res EXCEPT ![t] = [found |-> TRUE, index |-> mid[t]]]
    /\ IF track[t]
       THEN AddStep(t, EvFound(left[t], right[t], mid[t], target[t],
                               comparisons[self[t]]), "return")
       ELSE Goto(t, "return") /\ UNCHANGED <<pend, ret>>
    /\ UNCHANGED <<data, isList, target, track, left, right, mid, tmp, result,
                   err, hist, self, steps, comparisons, heap>>

\* lines 179-196: the eliminate step of the left half
EliminateLeft(t) ==
    /\ pc[t] = "eliminate_left"
    /\ IF track[t]
       THEN AddStep(t, EvElimLeft(data[t], left[t], right[t], mid[t], target[t]),
                    "set_left")
       ELSE Goto(t, "set_left") /\ UNCHANGED <<pend, ret>>
    /\ UNCHANGED <<data, isList, target, track, left, right, mid, tmp, res,
                   result, err, hist, self, steps, comparisons, heap>>

\* line 197: left = mid + 1
NewLeftStuck(m) == m
NewLeft(m) == m + 1
SetLeft(t) ==
    /\ pc[t] = "set_left"
    /\ left' = [left EXCEPT ![t] = NewLeft(mid[t])]
    /\ Goto(t, "loop")
    /\ UNCHANGED <<data, isList, target, track, right, mid, tmp, pend, ret,
                   res, result, err, hist, self, steps, comparisons, heap>>

\* lines 200-217: the eliminate step of the right half
EliminateRight(t) ==
    /\ pc[t] = "eliminate_right"
    /\ IF track[t]
       THEN AddStep(t, EvElimRight(data[t], left[t], right[t], mid[t], target[t]),
                    "set_right")
       ELSE Goto(t, "set_right") /\ UNCHANGED <<pend, ret>>
    /\ UNCHANGED <<data, isList, target, track, left, right, mid, tmp, res,
                   result, err, hist, self, steps, comparisons, heap>>

\* line 218: right = mid - 1
NewRightSkip(m) == m - 2
NewRight(m) == m - 1
SetRight(t) ==
    /\ pc[t] = "set_right"
    /\ right' = [right EXCEPT ![t] = NewRight(mid[t])]
    /\ Goto(t, "loop")
    /\ UNCHANGED <<data, isList, target, track, left, mid, tmp, pend, ret,
                   res, result, err, hist, self, steps, comparisons, heap>>

ExhaustedSilent(t) ==
    /\ pc[t] = "exhausted"
    /\ res' = [res EXCEPT ![t] = [found |-> FALSE, index |-> -1]]
    /\ Goto(t, "return")
    /\ UNCHANGED <<data, isList, target, track, left, right, mid, tmp, pend,
                   ret, result, err, hist, self, steps, comparisons, heap>>

\* lines 220-235: the search-exhausted step and
\* return {'found': False, 'index': -1}
Exhausted(t) ==
    /\ pc[t] = "exhausted"
    /\ res' = [res EXCEPT ![t] = [found |-> FALSE, index |-> -1]]
    /\ IF track[t]
       THEN AddStep(t, EvExhausted(comparisons[self[t]], left[t], right[t]),
                    "return")
       ELSE Goto(t, "return") /\ UNCHANGED <<pend, ret>>
    /\ UNCHANGED <<data, isList, target, track, left, right, mid, tmp, result,
                   err, hist, self, steps, comparisons, heap>>

\* lines 91-96: return BinarySearchResult(result['found'], result['index'],
\* self.steps, self.comparisons)
Return(t) ==
    /\ pc[t] = "return"
    /\ result' = [result EXCEPT ![t] =
                    [found |-> res[t].found, index |-> res[t].index,
                     steps |-> steps[self[t]],
                     comparisons |-> comparisons[self[t]]]]
    /\ Goto(t, "returned")
    /\ UNCHANGED <<data, isList, target, track, left, right, mid, tmp, pend,
                   ret, res, err, hist, self, steps, comparisons, heap>>

\* len(self.steps) + 1
OperationCountZeroBased(log) == Len(log)
OperationCount(log) == Len(log) + 1

\* line 261: step['operationCount'] = len(self.steps) + 1
AddStepStamp(t) ==
    /\ pc[t] = "add_stamp"
    /\ pend' = [pend EXCEPT ![t] =
                  [@ EXCEPT !.operationCount = OperationCount(heap[steps[self[t]]])]]
    /\ Goto(t, "add_append")
    /\ UNCHANGED <<data, isList, target, track, left, right, mid, tmp, ret,
                   res, result, err, hist, self, steps, comparisons, heap>>

\* line 262: self.steps.append(step)
AddStepAppend(t) ==
    /\ pc[t] = "add_append"
    /\ heap' = [heap EXCEPT ![steps[self[t]]] = Append(@, pend[t])]
    /\ Goto(t, ret[t])
    /\ UNCHANGED <<data, isList, target, track, left, right, mid, tmp, pend,
                   ret, res, result, err, hist, self, steps, comparisons>>

\* one statement of execute by thread t
Step(t) ==
    \/ ResetSteps(t)
    \/ ResetComparisons(t)
    \/ Validate(t)
    \/ InitStep(t)
    \/ EdgeCase(t)
    \/ ReturnEmpty(t)
    \/ LoopTest(t)
    \/ HighlightRange(t)
    \/ HighlightPointers(t)
    \/ LoadComparisons(t)
    \/ StoreComparisons(t)
    \/ Compare(t)
    \/ Branch(t)
    \/ Found(t)
    \/ EliminateLeft(t)
    \/ SetLeft(t)
    \/ EliminateRight(t)
    \/ SetRight(t)
    \/ Exhausted(t)
    \/ Return(t)
    \/ AddStepStamp(t)
    \/ AddStepAppend(t)

\* ---------------------------------------------------------- specifications
\* one call of execute, on any argument values, on a fresh instance
Call ==
    /\ pc[1] = "idle"
    /\ \E l \in BOOLEAN, d \in SeqsUpTo(Values(MaxVal), MaxLen),
          tg \in Targets(MaxVal), tr \in BOOLEAN :
           /\ l \/ d = <<>>     \* the elements of a non-list are never read
           /\ Execute(1, l, d, tg, tr)

Init == InitWith(FALSE)
Next == Call \/ Step(1)
Spec == Init /\ [][Next]_vars

\* ------------------------------------------------------------- properties
\* the list self.steps of thread t's instance refers to
Log(t) == heap[steps[self[t]]]

\* data is a list of finite numbers in non-decreasing order, target finite
FiniteNumbers(d) == \A i \in 1..Len(d) : d[i].k = "int"
NonDecreasing(d) == \A i \in 1..(Len(d) - 1) : d[i].v <= d[i + 1].v
FiniteTarget(tg) == tg.k = "int"
Occurs(d, tg) == \E i \in 1..Len(d) : d[i] = tg
SortedInput(t) ==
    /\ isList[t]
    /\ FiniteNumbers(data[t])
    /\ NonDecreasing(data[t])
    /\ FiniteTarget(target[t])

\* execute has ended, by return or by raise
Ended(t) == pc[t] \in {"returned", "raised"}

\* execute is past line 62
Validated(t) == pc[t] \notin {"idle", "reset_steps", "reset_comparisons", "validate"}

CeilLog2(x) == CHOOSE k \in 0..x : 2^k >= x /\ \A j \in 0..(k - 1) : 2^j < x

\* C4: on a valid list of length n > 0 the comparison count execute returns
\* is at least 1 and at most ceil(log2(n + 1)), found or not.
C4_ComparisonBound ==
    \A t \in Threads :
        (pc[t] = "returned" /\ Len(data[t]) > 0)
        => /\ result[t].comparisons >= 1
           /\ result[t].comparisons <= CeilLog2(Len(data[t]) + 1)

C4_Witness ==
    /\ pc[1] = "returned" /\ Len(data[1]) = 4 /\ ~result[1].found
    /\ result[1].comparisons = 3 /\ CeilLog2(5) = 3

\* the sortedness error of line 280 and the element error of line 285
IsSortedError(e) == e.kind = "ValueError" /\ e.msg = "Array must be sorted for binary search"
IsElementError(e) == e.kind = "ValueError" /\ e.msg = "Array element must be a finite number"

C6_ElementError ==
    \A t \in Threads :
        (Validated(t) /\ isList[t] /\ FiniteTarget(target[t])
            /\ ~FiniteNumbers(data[t]))
        => /\ pc[t] = "raised"
           /\ IsElementError(err[t])
           /\ err[t].index \in 0..(Len(data[t]) - 1)
           /\ PyAt(data[t], err[t].index).k # "int"
           /\ err[t].value = PyAt(data[t], err[t].index)

\* C7: every failure of execute is a validation error (ValueError) raised
\* before any search step: no step appended, the counter 0, no result; and
\* past validation execute does not raise.
C7_OnlyValidationErrors ==
    \A t \in Threads :
        pc[t] = "raised"
        => /\ err[t].kind = "ValueError"
           /\ Log(t) = <<>>
           /\ comparisons[self[t]] = 0
           /\ result[t] = NoResult
           /\ hist[t] = <<>>

\* the part of C7 that does not name the kind of the exception: execute
\* raises only out of line 62, before any step, count or result
RaisedBeforeSearch ==
    /\ [](\A t \in Threads :
            pc[t] = "raised"
            => /\ Log(t) = <<>> /\ comparisons[self[t]] = 0
               /\ result[t] = NoResult /\ hist[t] = <<>>)
    /\ [][\A t \in Threads :
            (pc[t] # "raised" /\ pc'[t] = "raised") => pc[t] = "validate"]_vars

\* every step of thread t's log carries its 1-based position
Numbered(t) == \A k \in 1..Len(Log(t)) : Log(t)[k].operationCount = k

\* a step of the heap: every list keeps the steps it holds, in place
AppendOnly ==
    \A r \in DOMAIN heap :
        /\ r \in DOMAIN heap'
        /\ Len(heap'[r]) >= Len(heap[r])
        /\ SubSeq(heap'[r], 1, Len(heap[r])) = heap[r]

\* C9: at every point of a traced call the k-th step of the log carries
\* operationCount = k (the run 1, 2, ..., len(steps)), and a step once
\* appended is never removed, reordered or renumbered.
C9_SequenceNumbers ==
    /\ [](\A t \in Threads : track[t] => Numbered(t))
    /\ [][AppendOnly]_vars

C9_Witness ==
    /\ pc[1] = "add_append" /\ track[1]
    /\ Len(Log(1)) = 8 /\ Log(1)[8].operationCount = 8
    /\ pend[1].operationCount = 9

\* the three terminal steps
IsFound(e) == e.type = "found"
IsExhausted(e) ==
    /\ e.type = "eliminate"
    /\ "searchExhausted" \in DOMAIN e.metadata
    /\ e.metadata.searchExhausted
IsEmptyArray(e) ==
    /\ e.type = "eliminate"
    /\ "reason" \in DOMAIN e.metadata
    /\ e.metadata.reason = "empty-array"
IsTerminal(e) == IsFound(e) \/ IsExhausted(e) \/ IsEmptyArray(e)

\* C10: the last step of the trace a traced call returns is a found step
\* exactly when found = true, and otherwise the searchExhausted eliminate step
\* (non-empty list) or the empty-array eliminate step (empty list); no step
\* follows a terminal step.
C10_TerminalEvent ==
    \A t \in Threads :
        /\ (pc[t] = "returned" /\ track[t])
           => LET L == heap[result[t].steps]
              IN  /\ Len(L) > 0
                  /\ result[t].found <=> IsFound(L[Len(L)])
                  /\ ~result[t].found
                     => IF Len(data[t]) = 0 THEN IsEmptyArray(L[Len(L)])
                        ELSE IsExhausted(L[Len(L)])
        /\ track[t] => \A k \in 1..(Len(Log(t)) - 1) : ~IsTerminal(Log(t)[k])

C10_Witness ==
    /\ pc[1] = "returned" /\ track[1] /\ ~result[1].found /\ Len(data[1]) = 3
    /\ IsExhausted(heap[result[1].steps][Len(heap[result[1].steps])])
    /\ Len(heap[result[1].steps]) = 10

\* -------------------------------------------------- a call running alone
\* _add_step on a log that no other call touches
AddTo(log, step) == Append(log, [step EXCEPT !.operationCount = OperationCount(log)])
Record(tr, log, step) == IF tr THEN AddTo(log, step) ELSE log

\* _binary_search_core from the loop test on, with the log and the counter
\* of this call only
RECURSIVE SoloLoop(_, _, _, _, _, _, _)
SoloLoop(d, tg, tr, l, r, log, c) ==
    IF l > r
    THEN [found |-> FALSE, index |-> -1,
          steps |-> Record(tr, log, EvExhausted(c, l, r)), comparisons |-> c]
    ELSE LET m == Mid(l, r)
             log1 == Record(tr, Record(tr, log, EvRange(l, r, m)),
                            EvPointers(d, l, r, m))
             log2 == Record(tr, log1, EvCompare(d, l, r, m, tg, c + 1))
             b == BranchOf(PyAt(d, m), tg)
         IN  IF b = "equal"
             THEN [found |-> TRUE, index |-> m,
                   steps |-> Record(tr, log2, EvFound(l, r, m, tg, c + 1)),
                   comparisons |-> c + 1]
             ELSE IF b = "less"
             THEN SoloLoop(d, tg, tr, NewLeft(m), r,
                           Record(tr, log2, EvElimLeft(d, l, r, m, tg)), c + 1)
             ELSE SoloLoop(d, tg, tr, l, NewRight(m),
                           Record(tr, log2, EvElimRight(d, l, r, m, tg)), c + 1)

\* what execute(d, tg, tr) returns on a valid input when no other call runs:
\* found, index, the contents of steps, comparisons
SoloRun(d, tg, tr) ==
    LET log0 == Record(tr, <<>>, EvInit(tg, Len(d)))
    IN  IF Len(d) = 0
        THEN [found |-> FALSE, index |-> -1,
              steps |-> Record(tr, log0, EvEmpty), comparisons |-> 0]
        ELSE SoloLoop(d, tg, tr, 0, Len(d) - 1, log0, 0)

\* two calls of execute on valid inputs, on one shared instance or on one
\* instance each, their statements interleaved; thread 1 calls with tracing
\* on or off, thread 2 with tracing off (as binary_search does)
CallConc(t) ==
    /\ pc[t] = "idle"
    /\ \E d \in ValidLists(ConcMaxLen, ConcMaxVal),
          tg \in FiniteTargets(ConcMaxVal),
          tr \in (IF t = 1 THEN BOOLEAN ELSE {FALSE}) :
           Execute(t, TRUE, d, tg, tr)

InitConc == InitWith(TRUE) \/ InitWith(FALSE)
NextConc == \E t \in Threads : CallConc(t) \/ Step(t)
SpecConc == InitConc /\ [][NextConc]_vars

\* C8: for any interleaving of two execute calls on valid inputs, on one
\* shared instance or not, each call returns the steps and the comparison
\* count it returns when run alone.
C8_IndependentCalls ==
    \A t \in Threads :
        pc[t] = "returned"
        => LET solo == SoloRun(data[t], target[t], track[t])
           IN  /\ heap[result[t].steps] = solo.steps
               /\ result[t].comparisons = solo.comparisons

\* the same, for two calls on one instance each (binary_search and
\* binary_search_with_steps construct the instance per call)
IndependentOnOwnInstance == self[1] # self[2] => C8_IndependentCalls

\* one call of execute on a valid input, then the same call with
\* track_steps toggled, on the same instance or on a fresh one
CallPair ==
    /\ pc[1] = "idle"
    /\ \E d \in ValidLists(PairMaxLen, PairMaxVal),
          tg \in FiniteTargets(PairMaxVal), tr \in BOOLEAN :
           Execute(1, TRUE, d, tg, tr)

CallTwin ==
    /\ Ended(1)
    /\ Execute(2, isList[1], data[1], target[1], ~track[1])

InitPair == InitWith(TRUE) \/ InitWith(FALSE)
NextPair == CallPair \/ CallTwin \/ \E t \in Threads : Step(t)
SpecPair == InitPair /\ [][NextPair]_vars

\* C3: on a valid input, execute with track_steps=False and with
\* track_steps=True return the same found flag, index and comparison count
\* and take the same branch in every iteration; with tracing off the
\* returned steps are empty.
C3_TracingToggle ==
    (Ended(1) /\ Ended(2))
    => /\ pc[1] = "returned" /\ pc[2] = "returned"
       /\ result[1].found = result[2].found
       /\ result[1].index = result[2].index
       /\ result[1].comparisons = result[2].comparisons
       /\ hist[1] = hist[2]
       /\ result[1].comparisons = Len(hist[1])
       /\ \A t \in Threads :
            IF track[t] THEN heap[result[t].steps] # <<>>
            ELSE heap[result[t].steps] = <<>>

C3_Witness ==
    /\ pc[1] = "returned" /\ pc[2] = "returned"
    /\ self[1] = self[2] /\ track[1] /\ ~track[2]
    /\ data[2] = data[1] /\ target[2] = target[1]
    /\ result[2].comparisons = 3 /\ result[2].found
    /\ hist[2] = <<"less", "less", "equal">>

\* the positions of execute inside _binary_search_core
CorePositions ==
    {"loop", "highlight_range", "highlight_pointers", "load_comparisons",
     "store_comparisons", "compare", "branch", "found", "eliminate_left",
     "set_left", "eliminate_right", "set_right", "exhausted", "return"}

\* the steps of a log that have the given type
OfType(L, ty) == {k \in 1..Len(L) : L[k].type = ty}

NumList(s) == [i \in 1..Len(s) |-> Num(s[i])]
TestCase(d, tg, f, i) ==
    [data |-> NumList(d), target |-> Num(tg), expected |-> [found |-> f, index |-> i]]

\* generate_test_cases()
GenerateTestCases ==
    << TestCase(<<1, 3, 5, 7, 9>>, 5, TRUE, 2),
       TestCase(<<1, 3, 5, 7, 9>>, 1, TRUE, 0),
       TestCase(<<1, 3, 5, 7, 9>>, 9, TRUE, 4),
       TestCase(<<1, 3, 5, 7, 9>>, 4, FALSE, -1),
       TestCase(<<>>, 5, FALSE, -1),
       TestCase(<<5>>, 5, TRUE, 0),
       TestCase(<<5>>, 3, FALSE, -1),
       TestCase(<<1, 2, 3, 4, 5, 6, 7, 8, 9, 10>>, 7, TRUE, 6),
       TestCase(<<1, 2, 3, 4, 5, 6, 7, 8, 9, 10>>, 11, FALSE, -1),
       TestCase(<<1, 2, 2, 2, 5>>, 2, TRUE, 1) >>

\* the duplicate-value fixture, the last of the list
DuplicateCase == GenerateTestCases[Len(GenerateTestCases)]

\* one call of execute on the data and target of a fixture
CallFixture ==
    /\ pc[1] = "idle"
    /\ \E f \in 1..Len(GenerateTestCases), tr \in BOOLEAN :
           Execute(1, TRUE, GenerateTestCases[f].data, GenerateTestCases[f].target, tr)

NextFixtures == CallFixture \/ Step(1)
SpecFixtures == Init /\ [][NextFixtures]_vars

\* execute has ended on fixture tc with the outcome the fixture expects
MeetsExpected(tc) ==
    (Ended(1) /\ data[1] = tc.data /\ target[1] = tc.target)
    => /\ pc[1] = "returned"
       /\ result[1].found = tc.expected.found
       /\ result[1].index = tc.expected.index

\* C12: for every fixture of generate_test_cases, execute(data, target)
\* returns found = expected['found'] and index = expected['index'],
\* the duplicate-value fixture ([1,2,2,2,5], 2, index 1) included.
C12_FixturesMeetExpected ==
    \A f \in 1..Len(GenerateTestCases) : MeetsExpected(GenerateTestCases[f])

\* what holds instead: every other fixture meets its expected outcome, and
\* on the duplicate-value fixture execute returns index 2, which holds a 2
FixturesButDuplicate ==
    /\ \A f \in 1..(Len(GenerateTestCases) - 1) : MeetsExpected(GenerateTestCases[f])
    /\ (pc[1] = "returned" /\ data[1] = DuplicateCase.data
            /\ target[1] = DuplicateCase.target)
       => /\ result[1].found
          /\ result[1].index = 2
          /\ PyAt(data[1], result[1].index) = target[1]

\* -------------------------------------------------------------- termination
\* the interpreter keeps running a call that has started: each enabled step
\* of thread 1 is eventually taken
LiveMaxLen == 3
LiveMaxVal == 2
CallLive ==
    /\ pc[1] = "idle"
    /\ \E l \in BOOLEAN, d \in SeqsUpTo(Values(LiveMaxVal), LiveMaxLen),
          tg \in Targets(LiveMaxVal), tr \in BOOLEAN :
           /\ l \/ d = <<>>
           /\ Execute(1, l, d, tg, tr)
NextLive == CallLive \/ Step(1)
SpecLive == Init /\ [][NextLive]_vars /\ WF_vars(Step(1))

\* right - left + 1, the size of the candidate range of thread t
RangeSize(t) == right[t] - left[t] + 1

\* thread t is in _binary_search_core, or on its way back from it
InCore(t) ==
    \/ pc[t] \in CorePositions
    \/ pc[t] \in {"add_stamp", "add_append"} /\ ret[t] \in CorePositions

\* C13: every execute call on an input that passes validation terminates and
\* returns a result; right - left + 1 strictly decreases in every loop
\* iteration that does not return found, and the loop is left only with found
\* or with left > right.
C13_Terminates ==
    /\ (Validated(1) /\ pc[1] # "raised") ~> (pc[1] = "returned")
    /\ [][/\ (pc[1] \in {"set_left", "set_right"} /\ pc'[1] = "loop")
             => /\ RangeSize(1)' < RangeSize(1)
                /\ RangeSize(1)' >= 0
          /\ (pc[1] = "loop" /\ pc'[1] = "exhausted") => left[1] > right[1]
          /\ (InCore(1) /\ pc'[1] = "return" /\ pc[1] # "return")
             => (res'[1].found \/ left[1] > right[1])]_vars
C13_Witness ==
    /\ pc[1] = "returned"
    /\ Len(data[1]) >= 3
    /\ ~result[1].found
    /\ result[1].comparisons >= 2
    /\ left[1] > right[1]

\* ------------------------------------------------------------ index bounds
\* the positions of one loop iteration, lines 107-218
BodyPositions == CorePositions \ {"loop", "exhausted", "return"}
InIteration(t) ==
    \/ pc[t] \in BodyPositions
    \/ pc[t] \in {"add_stamp", "add_append"} /\ ret[t] \in BodyPositions

\* C14: in every loop iteration on a validated non-empty list,
\* 0 <= left <= mid <= right <= len(data) - 1, so data[left], data[mid] and
\* data[right] are in bounds (no IndexError, no negative index); and after
\* every update of left or right, 0 <= left <= right + 1 <= len(data).
C14_IndexBounds ==
    \A t \in Threads :
        /\ InIteration(t)
           => /\ Len(data[t]) > 0
              /\ 0 <= left[t] /\ left[t] <= mid[t] /\ mid[t] <= right[t]
              /\ right[t] <= Len(data[t]) - 1
              /\ \A i \in {left[t], mid[t], right[t]} :
                     i >= 0 /\ InBounds(data[t], i)
        /\ InCore(t)
           => /\ 0 <= left[t] /\ left[t] <= right[t] + 1
              /\ right[t] + 1 <= Len(data[t])
        /\ pc[t] = "raised" => err[t] # ErrIndex
C14_Witness ==
    /\ pc[1] = "loop"
    /\ Len(data[1]) >= 3
    /\ comparisons[self[1]] >= 2
    /\ left[1] = right[1] + 1
    /\ left[1] > 0 /\ left[1] < Len(data[1])

\* ------------------------------------------------------ elimination is sound
\* the 0-based indices of data[t] that hold the target
TargetIndices(t) == {i \in 0..(Len(data[t]) - 1) : PyAt(data[t], i) = target[t]}

\* an eliminate step of the loop, lines 180-196 and 201-217
IsHalfEliminate(e) == e.type = "eliminate" /\ "eliminated" \in DOMAIN e.metadata

\* C15: elimination is sound: no index placed in an eliminated range
\* ([left, mid] when data[mid] < target, [mid, right] when data[mid] > target)
\* holds the target, and at the start of every iteration every index that
\* holds the target lies in [left, right].
C15_EliminationSound ==
    \A t \in Threads :
        (InCore(t) /\ SortedInput(t))
        => /\ \A i \in TargetIndices(t) : left[t] <= i /\ i <= right[t]
           /\ pc[t] \in {"eliminate_left", "set_left"}
              => /\ PyLt(PyAt(data[t], mid[t]), target[t]) = "true"
                 /\ TargetIndices(t) \cap (left[t]..mid[t]) = {}
           /\ pc[t] \in {"eliminate_right", "set_right"}
              => /\ PyLt(target[t], PyAt(data[t], mid[t])) = "true"
                 /\ TargetIndices(t) \cap (mid[t]..right[t]) = {}
           /\ \A k \in 1..Len(Log(t)) :
                  IsHalfEliminate(Log(t)[k])
                  => LET e == Log(t)[k]
                     IN  /\ \A j \in 1..Len(e.indices) : e.indices[j] \notin TargetIndices(t)
                         /\ TargetIndices(t)
                                \cap (e.metadata.eliminatedRange[1]..e.metadata.eliminatedRange[2]) = {}
C15_Witness ==
    /\ pc[1] = "loop"
    /\ track[1]
    /\ SortedInput(1)
    /\ TargetIndices(1) # {}
    /\ \E k \in 1..Len(Log(1)) :
           /\ IsHalfEliminate(Log(1)[k])
           /\ Len(Log(1)[k].indices) >= 2
    /\ left[1] <= right[1]

\* --------------------------------------------------------- trace structure
IsRangeHighlight(e) == e.type = "highlight" /\ "searchRange" \in DOMAIN e.metadata
IsPointerHighlight(e) == e.type = "highlight" /\ "pointers" \in DOMAIN e.metadata

\* L is an init step, then c iterations of four steps, the last of them a
\* found step when f, and one closing searchExhausted step when not f
TraceShape(L, c, f) ==
    /\ Len(L) = (IF f THEN 1 ELSE 2) + 4 * c
    /\ L[1].type = "init"
    /\ \A j \in 1..c :
           /\ IsRangeHighlight(L[4 * j - 2])
           /\ IsPointerHighlight(L[4 * j - 1])
           /\ L[4 * j].type = "compare"
           /\ IF f /\ j = c THEN IsFound(L[4 * j + 1])
              ELSE IsHalfEliminate(L[4 * j + 1])
    /\ ~f => IsExhausted(L[Len(L)])
    /\ Cardinality(OfType(L, "init")) = 1
    /\ Cardinality(OfType(L, "compare")) = c
    /\ Cardinality(OfType(L, "highlight")) = 2 * c
    /\ Cardinality(OfType(L, "found")) = (IF f THEN 1 ELSE 0)
    /\ Cardinality(OfType(L, "eliminate")) = (IF f THEN c - 1 ELSE c + 1)

\* C16: with tracing on and a non-empty valid list the trace is one init
\* step, then for each iteration highlight (range), highlight (pointers),
\* compare, and eliminate or found, in that order, and one final eliminate
\* step after an exhausted loop: 1 + 4*comparisons steps when found,
\* 2 + 4*comparisons when not, with as many compare steps as comparisons.
C16_TraceStructure ==
    \A t \in Threads :
        (pc[t] = "returned" /\ track[t] /\ Len(data[t]) > 0)
        => /\ result[t].comparisons >= 1
           /\ TraceShape(heap[result[t].steps], result[t].comparisons, result[t].found)
C16_Witness ==
    /\ pc[1] = "returned" /\ track[1] /\ result[1].found
    /\ result[1].comparisons = 2
    /\ Len(heap[result[1].steps]) = 9
    /\ IsHalfEliminate(heap[result[1].steps][5])
    /\ IsFound(heap[result[1].steps][9])

\* ------------------------------------------------------- eliminate ranges
\* the indices of the inclusive range <<start, end>>, none when start > end
RangeOf(rg) == rg[1]..rg[2]

\* the ranges of the eliminate step e partition its [left, right]
SplitsRange(e) ==
    LET m == e.metadata
    IN  /\ RangeOf(m.eliminatedRange) \cap RangeOf(m.remainingRange) = {}
        /\ RangeOf(m.eliminatedRange) \cup RangeOf(m.remainingRange) = m.left..m.right
        /\ RangeOf(m.eliminatedRange) # {}
        /\ m.remainingRange[1] <= m.remainingRange[2] + 1
        /\ m.remainingSize = Cardinality(RangeOf(m.remainingRange))
        /\ m.remainingSize = m.remainingRange[2] - m.remainingRange[1] + 1

\* step nxt searches exactly the range the eliminate step e left over
ContinuesWith(e, nxt) ==
    LET rem == e.metadata.remainingRange
    IN  IF rem[1] <= rem[2]
        THEN /\ IsRangeHighlight(nxt)
             /\ nxt.metadata.left = rem[1] /\ nxt.metadata.right = rem[2]
             /\ nxt.indices = GenerateRangeIndices(rem[1], rem[2])
        ELSE /\ IsExhausted(nxt)
             /\ nxt.metadata.finalLeft = rem[1] /\ nxt.metadata.finalRight = rem[2]

\* C17: in every non-terminal eliminate step eliminatedRange and
\* remainingRange are disjoint and cover exactly the step's [left, right],
\* remainingSize is the number of indices of remainingRange, and
\* remainingRange is the [left, right] of the next iteration's highlight step,
\* or is empty (start > end) when the next step is the searchExhausted step.
C17_EliminateRanges ==
    \A t \in Threads :
        track[t]
        => \A k \in 1..Len(Log(t)) :
               IsHalfEliminate(Log(t)[k])
               => /\ SplitsRange(Log(t)[k])
                  /\ k < Len(Log(t)) => ContinuesWith(Log(t)[k], Log(t)[k + 1])
                  /\ pc[t] = "returned" => k < Len(Log(t))
C17_Witness ==
    /\ pc[1] = "returned" /\ track[1]
    /\ \E k \in 1..(Len(Log(1)) - 1) :
           /\ IsHalfEliminate(Log(1)[k])
           /\ Log(1)[k].metadata.remainingSize >= 1
           /\ IsRangeHighlight(Log(1)[k + 1])
    /\ \E k \in 1..(Len(Log(1)) - 1) :
           /\ IsHalfEliminate(Log(1)[k])
           /\ Log(1)[k].metadata.remainingSize = 0
           /\ IsExhausted(Log(1)[k + 1])

\* ---------------------------------------------- compare outcome and branch
\* the number of compare steps among the first k steps of L
CompareOrdinal(L, k) == Cardinality({j \in 1..k : L[j].type = "compare"})

\* step nxt is the branch that the outcome of the compare step e calls for
AgreesWith(e, nxt) ==
    LET o == e.metadata.comparison
    IN  /\ o \in {"equal", "greater", "less"}
        /\ nxt.metadata.mid = e.metadata.mid
        /\ o = "equal" => IsFound(nxt) /\ nxt.metadata.foundIndex = e.metadata.mid
        /\ o = "greater" => IsHalfEliminate(nxt) /\ nxt.metadata.eliminated = "left"
        /\ o = "less" => IsHalfEliminate(nxt) /\ nxt.metadata.eliminated = "right"

\* C18: the outcome recorded in each compare step agrees with the branch
\* taken in the same iteration: 'equal' is followed by a found step at the
\* same mid, 'greater' by an eliminate step with eliminated = 'left', 'less'
\* by one with eliminated = 'right'; and comparisonCount is the compare
\* step's ordinal among the compare steps.
C18_CompareAgreesWithBranch ==
    \A t \in Threads :
        track[t]
        => \A k \in 1..Len(Log(t)) :
               Log(t)[k].type = "compare"
               => /\ Log(t)[k].metadata.comparisonCount = CompareOrdinal(Log(t), k)
                  /\ k < Len(Log(t)) => AgreesWith(Log(t)[k], Log(t)[k + 1])
                  /\ pc[t] = "returned" => k < Len(Log(t))
C18_Witness ==
    /\ pc[1] = "returned" /\ track[1]
    /\ \E i, j \in 1..Len(Log(1)) :
           /\ i < j
           /\ Log(1)[i].type = "compare" /\ Log(1)[i].metadata.comparison = "greater"
           /\ Log(1)[i + 1].metadata.eliminated = "left"
           /\ Log(1)[j].type = "compare" /\ Log(1)[j].metadata.comparison = "less"
           /\ Log(1)[j + 1].metadata.eliminated = "right"
           /\ Log(1)[j].metadata.comparisonCount = 2


\* ------------------------------------------------- later calls on one instance
SeqMaxLen == 1
SeqMaxVal == 1
SeqMaxCalls == 2

\* the first call of execute on the instance: caller 1 keeps its result
CallFirst ==
    /\ pc[1] = "idle"
    /\ \E d \in ValidLists(SeqMaxLen, SeqMaxVal),
          tg \in FiniteTargets(SeqMaxVal), tr \in BOOLEAN :
           Execute(1, TRUE, d, tg, tr)

\* a further call on the same instance after the first has returned, on an
\* input that passes validation or fails it (a non-list, a NaN target)
CallLater ==
    /\ pc[1] = "returned"
    /\ pc[2] = "idle"
    /\ Len(heap) < Cardinality(Instances) + 1 + SeqMaxCalls
    /\ \E l \in BOOLEAN, d \in ValidLists(SeqMaxLen, SeqMaxVal),
          tg \in FiniteTargets(SeqMaxVal) \cup {NaN}, tr \in BOOLEAN :
           /\ l \/ d = <<>>
           /\ Execute(2, l, d, tg, tr)

\* the lists some instance or some result other than caller t's refers to
Referenced(t) ==
    {steps[i] : i \in Instances} \cup {result[u].steps : u \in Threads \ {t}}

\* caller t is done with a call that has ended and drops its result: the
\* frame's locals are gone, and a list nothing refers to any more is freed
Release(t) ==
    /\ Ended(t)
    /\ pc' = [pc EXCEPT ![t] = "idle"]
    /\ data' = [data EXCEPT ![t] = <<>>]
    /\ isList' = [isList EXCEPT ![t] = TRUE]
    /\ target' = [target EXCEPT ![t] = Num(0)]
    /\ track' = [track EXCEPT ![t] = FALSE]
    /\ left' = [left EXCEPT ![t] = 0]
    /\ right' = [right EXCEPT ![t] = 0]
    /\ mid' = [mid EXCEPT ![t] = 0]
    /\ tmp' = [tmp EXCEPT ![t] = 0]
    /\ pend' = [pend EXCEPT ![t] = NoStep]
    /\ ret' = [ret EXCEPT ![t] = "idle"]
    /\ res' = [res EXCEPT ![t] = NoRes]
    /\ result' = [result EXCEPT ![t] = NoResult]
    /\ err' = [err EXCEPT ![t] = NoErr]
    /\ hist' = [hist EXCEPT ![t] = <<>>]
    /\ heap' = [r \in DOMAIN heap |-> IF r \in Referenced(t) THEN heap[r] ELSE <<>>]
    /\ UNCHANGED <<self, steps, comparisons>>

InitSeq == InitWith(TRUE)
NextSeq == CallFirst \/ CallLater \/ Release(2) \/ \E t \in Threads : Step(t)
SpecSeq == InitSeq /\ [][NextSeq]_vars

\* the result caller t holds, with the contents of its steps list
Held(t) ==
    [found |-> result[t].found, index |-> result[t].index,
     steps |-> heap[result[t].steps], comparisons |-> result[t].comparisons]

\* C19: a result R returned by execute is not changed by later calls on the
\* same instance, whether they pass validation or fail it, with tracing on or
\* off: R.found, R.index, R.comparisons and the contents of R.steps stay what
\* the call returned.
C19_ResultUnchanged ==
    /\ [](pc[1] = "returned" => Held(1) = SoloRun(data[1], target[1], track[1]))
    /\ [][pc[1] = "returned"
          => /\ result'[1] = result[1]
             /\ heap'[result[1].steps] = heap[result[1].steps]]_vars
C19_Witness ==
    /\ pc[1] = "returned" /\ track[1]
    /\ Len(heap[result[1].steps]) >= 5
    /\ Ended(2) /\ track[2]
    /\ self[2] = self[1]
    /\ Len(heap) = Cardinality(Instances) + 1 + SeqMaxCalls
    /\ steps[self[1]] # result[1].steps
    /\ comparisons[self[1]] # result[1].comparisons

=============================================================================
